---- MODULE Spec2Model ----
(***************************************************************************)
(* SGX dividend-yield monitor (main.py).                                   *)
(*                                                                         *)
(* One run of main(): a thread pool fetches price and dividend yield for   *)
(* every configured ticker, the main thread collects the finished futures, *)
(* filters and sorts them, posts a summary table to the Discord webhook    *)
(* and then, row by row, renders a chart, posts it and closes its buffer.  *)
(*                                                                         *)
(* Numbers are fixed point.  Quantities read from the data provider        *)
(* (last_price, dividendYield) are integers in units of 1/10000; values    *)
(* rounded to two decimals (Price, Yield, YIELD_THRESHOLD) are integers in *)
(* units of 1/100.  So dividendYield 0.0483 is 483, and Yield 4.83 is 483. *)
(* A row's Name (shortName, shown in the table and the embed) decides      *)
(* nothing and is left out of the rows.                                    *)
(***************************************************************************)
EXTENDS Integers, Sequences, FiniteSets, TLC

\* Number of tickers of sg_tickers_raw the model runs over.
NumSymbols == 2

\* The head of the configured list.
sg_tickers_raw == <<"D05", "O39", "U11", "A17U">>

Tickers == {sg_tickers_raw[n] : n \in 1..NumSymbols}

\* YIELD_THRESHOLD = 6.0, in units of 1/100.
YIELD_THRESHOLD == 600

VARIABLES
    webhook,            \* DISCORD_WEBHOOK_URL is set
    status,             \* per ticker: "submitted", "done" (future finished), "collected"
    quote,              \* per ticker: what the data provider answered to the worker
    future,             \* per ticker: the finished future's outcome
    results,            \* main's list of collected rows
    high_yield_stocks,  \* the filtered and sorted rows
    pc,                 \* main's position
    msg,                \* the summary table handed to send_discord_text
    i,                  \* index of the row the chart loop is at
    buffers,            \* per ticker: state of the BytesIO returned to main
    log                 \* what main did towards the outside, in order

vars == <<webhook, status, quote, future, results, high_yield_stocks, pc, msg, i, buffers, log>>

(***************************************************************************)
(* Values                                                                  *)
(***************************************************************************)

\* A reply of the provider: an exception, None, a NaN or a number.
Raise == [k |-> "raise", v |-> 0]
Absent == [k |-> "None", v |-> 0]
NaN == [k |-> "nan", v |-> 0]
Num(x) == [k |-> "num", v |-> x]
\* Recorded for the dividend yield when the worker never got to stock.info.
Unasked == [k |-> "unasked", v |-> 0]

\* fast_info.get('last_price'): an error, None, NaN, 0 or 15.0049.
PriceReplies == {Raise, Absent, NaN, Num(0), Num(150049)}

\* info.get('dividendYield'): an error, None, 0.0483 and 0.065 as fractions,
\* 4.83 as a percentage.
YieldReplies == {Raise, Absent, Num(483), Num(650), Num(48300)}

\* Python truthiness of a float or None: None and 0 are false, NaN is true.
Truthy(x) == x.k = "nan" \/ (x.k = "num" /\ x.v # 0)

\* What a worker's future can hold.
None == [kind |-> "None"]
Raised == [kind |-> "exception"]
IsRow(d) == d # None /\ d # Raised

(***************************************************************************)
(* fetch_stock_data                                                        *)
(***************************************************************************)

\* round(x, 2) of a value in units of 1/10000, in units of 1/100.  A decimal
\* half-way case is decided by the float's binary expansion, which the fixed
\* point value does not carry: both neighbours are possible.
RoundTwo(x) ==
    LET q == x \div 100
        r == x % 100
    IN  IF r < 50 THEN {q} ELSE IF r > 50 THEN {q + 1} ELSE {q, q + 1}

\* round(price, 2): NaN stays NaN.
RoundPrice(p) == IF p.k = "nan" THEN {NaN} ELSE {Num(c) : c \in RoundTwo(p.v)}

\* round(div_yield * 100, 2) if div_yield else 0.0
YieldPct(d) == IF Truthy(d) THEN RoundTwo(d.v * 100) ELSE {0}

\* The worker without its try/except: a provider error escapes into the future.
fetch_stock_data_unguarded(ticker_raw, p, d) ==
    IF p.k = "raise" THEN {Raised}
    ELSE IF ~Truthy(p) THEN {None}
    ELSE IF d.k = "raise" THEN {Raised}
    ELSE {[Code |-> ticker_raw, Price |-> c, Yield |-> y] :
              c \in RoundPrice(p), y \in YieldPct(d)}

\* The outcomes of fetch_stock_data(ticker_raw) when the provider answers p for
\* the last price and d for the dividend yield.
fetch_stock_data(ticker_raw, p, d) ==
    IF p.k = "raise" THEN {None}
    ELSE IF ~Truthy(p) THEN {None}
    ELSE IF d.k = "raise" THEN {None}
    ELSE {[Code |-> ticker_raw, Price |-> c, Yield |-> y] :
              c \in RoundPrice(p), y \in YieldPct(d)}

\* The worker reads stock.info only after it found a price.
ReachesInfo(p) == p.k # "raise" /\ Truthy(p)

(***************************************************************************)
(* Filtering and ranking                                                   *)
(***************************************************************************)

\* The filter with the threshold taken a factor ten too small.
FilterRowsScaled(rows, T) == SelectSeq(rows, LAMBDA r : r.Yield >= T \div 10)

\* df[df['Yield'] >= T]: the rows at or above T, in the order of the frame.
FilterRows(rows, T) == SelectSeq(rows, LAMBDA r : r.Yield >= T)

Orderings(n) == {f \in [1..n -> 1..n] : \A a, b \in 1..n : f[a] = f[b] => a = b}

\* The same sort, ascending.
sort_values_ascending(rows) ==
    {[n \in 1..Len(rows) |-> rows[f[n]]] : f \in
        {g \in Orderings(Len(rows)) :
            \A n \in 1..(Len(rows) - 1) : rows[g[n]].Yield <= rows[g[n + 1]].Yield}}

\* sort_values(by="Yield", ascending=False): pandas sorts with quicksort, which
\* is not stable, so rows of equal Yield may come out in any order.
sort_values(rows) ==
    {[n \in 1..Len(rows) |-> rows[f[n]]] : f \in
        {g \in Orderings(Len(rows)) :
            \A n \in 1..(Len(rows) - 1) : rows[g[n]].Yield >= rows[g[n + 1]].Yield}}

(***************************************************************************)
(* The run                                                                 *)
(***************************************************************************)

\* Outcomes of requests.post: HTTP 204, another status, an exception.
PostOutcomes == {"204", "400", "exception"}

Event(ev, code, out) == [ev |-> ev, code |-> code, out |-> out]

\* The shape of the state.
TypeOK ==
    /\ webhook \in BOOLEAN
    /\ \A t \in Tickers :
          /\ status[t] \in {"submitted", "done", "collected"}
          /\ quote[t].price \in PriceReplies \cup {Unasked}
          /\ quote[t].div \in YieldReplies \cup {Unasked}
          /\ IsRow(future[t]) => future[t].Code = t
          /\ buffers[t] \in {"unset", "open", "closed"}
    /\ \A n \in 1..Len(results) : results[n].Code \in Tickers
    /\ \A n \in 1..Len(high_yield_stocks) : high_yield_stocks[n] \in {results[m] : m \in 1..Len(results)}
    /\ pc \in {"fetch", "aborted", "summary", "loop", "send", "close", "done"}
    /\ i \in 1..(Len(high_yield_stocks) + 1)
    /\ \A n \in 1..Len(log) : log[n].ev \in {"text", "render", "send", "close"}

Init ==
    /\ webhook \in BOOLEAN
    /\ status = [t \in Tickers |-> "submitted"]
    /\ quote = [t \in Tickers |-> [price |-> Unasked, div |-> Unasked]]
    /\ future = [t \in Tickers |-> None]
    /\ results = <<>>
    /\ high_yield_stocks = <<>>
    /\ pc = "fetch"
    /\ msg = <<>>
    /\ i = 1
    /\ buffers = [t \in Tickers |-> "unset"]
    /\ log = <<>>

\* A pool thread runs fetch_stock_data(t) to its end.
Fetch(t) ==
    /\ status[t] = "submitted"
    /\ \E p \in PriceReplies :
       \E d \in (IF ReachesInfo(p) THEN YieldReplies ELSE {Unasked}) :
       \E data \in fetch_stock_data(t, p, d) :
          /\ quote' = [quote EXCEPT ![t] = [price |-> p, div |-> d]]
          /\ future' = [future EXCEPT ![t] = data]
    /\ status' = [status EXCEPT ![t] = "done"]
    /\ UNCHANGED <<webhook, results, high_yield_stocks, pc, msg, i, buffers, log>>

\* One turn of the as_completed loop: future.result() of a finished future,
\* which raises in main what the worker raised.
Collect(t) ==
    /\ pc = "fetch"
    /\ status[t] = "done"
    /\ status' = [status EXCEPT ![t] = "collected"]
    /\ IF future[t] = Raised
       THEN pc' = "aborted" /\ UNCHANGED results
       ELSE /\ pc' = pc
            /\ results' = IF future[t] # None THEN Append(results, future[t]) ELSE results
    /\ UNCHANGED <<webhook, quote, future, high_yield_stocks, msg, i, buffers, log>>

\* After the pool: return on no results, else filter and sort.
Screen ==
    /\ pc = "fetch"
    /\ \A t \in Tickers : status[t] = "collected"
    /\ IF results = <<>>
       THEN pc' = "done" /\ UNCHANGED high_yield_stocks
       ELSE \E ranked \in sort_values(FilterRows(results, YIELD_THRESHOLD)) :
               /\ high_yield_stocks' = ranked
               /\ pc' = IF ranked = <<>> THEN "done" ELSE "summary"
    /\ UNCHANGED <<webhook, status, quote, future, results, msg, i, buffers, log>>

\* The lines of the summary table, one per row of high_yield_stocks in its
\* order, each showing the row's Code, Yield and Price.
TableOf(rows) == [n \in 1..Len(rows) |-> rows[n]]

\* send_discord_text: nothing without a webhook, else one requests.post whose
\* exception is caught and whose status is not looked at.
send_discord_text ==
    \E out \in (IF webhook THEN PostOutcomes ELSE {"skipped"}) :
        log' = Append(log, Event("text", "", out))

\* Builds the table and calls send_discord_text(msg).
SendSummary ==
    /\ pc = "summary"
    /\ msg' = TableOf(high_yield_stocks)
    /\ send_discord_text
    /\ pc' = "loop"
    /\ i' = 1
    /\ UNCHANGED <<webhook, status, quote, future, results, high_yield_stocks, buffers>>

\* The row the chart loop is at.
ticker_code == high_yield_stocks[i].Code

\* chart_buf = generate_chart_buffer(ticker_code): a fresh open buffer, or None
\* when the history is empty or drawing raised; on None the loop moves on.
GenerateChart ==
    /\ pc = "loop"
    /\ i <= Len(high_yield_stocks)
    /\ \/ /\ log' = Append(log, Event("render", ticker_code, "buffer"))
          /\ buffers' = [buffers EXCEPT ![ticker_code] = "open"]
          /\ pc' = "send"
          /\ i' = i
       \/ /\ log' = Append(log, Event("render", ticker_code, "None"))
          /\ buffers' = buffers
          /\ pc' = "loop"
          /\ i' = i + 1
    /\ UNCHANGED <<webhook, status, quote, future, results, high_yield_stocks, msg>>

\* send_discord_with_chart posting again when the first post did not give 204.
SendChartRetrying ==
    /\ pc = "send"
    /\ \E out \in (IF webhook THEN PostOutcomes ELSE {"skipped"}) :
          log' = IF out \in {"400", "exception"}
                 THEN log \o <<Event("send", ticker_code, out), Event("send", ticker_code, out)>>
                 ELSE Append(log, Event("send", ticker_code, out))
    /\ pc' = "close"
    /\ UNCHANGED <<webhook, status, quote, future, results, high_yield_stocks, msg, i, buffers>>

\* send_discord_with_chart(ticker_code, row, chart_buf): nothing without a
\* webhook, else one requests.post; a status other than 204 is printed, an
\* exception is caught and printed.
SendChart ==
    /\ pc = "send"
    /\ \E out \in (IF webhook THEN PostOutcomes ELSE {"skipped"}) :
          log' = Append(log, Event("send", ticker_code, out))
    /\ pc' = "close"
    /\ UNCHANGED <<webhook, status, quote, future, results, high_yield_stocks, msg, i, buffers>>

\* The close left out when the post raised.
CloseChartUnlessRaised ==
    /\ pc = "close"
    /\ IF log[Len(log)].out = "exception"
       THEN UNCHANGED <<buffers, log>>
       ELSE /\ buffers' = [buffers EXCEPT ![ticker_code] = "closed"]
            /\ log' = Append(log, Event("close", ticker_code, ""))
    /\ i' = i + 1
    /\ pc' = "loop"
    /\ UNCHANGED <<webhook, status, quote, future, results, high_yield_stocks, msg>>

\* chart_buf.close(), then the next row.
CloseChart ==
    /\ pc = "close"
    /\ buffers' = [buffers EXCEPT ![ticker_code] = "closed"]
    /\ log' = Append(log, Event("close", ticker_code, ""))
    /\ i' = i + 1
    /\ pc' = "loop"
    /\ UNCHANGED <<webhook, status, quote, future, results, high_yield_stocks, msg>>

\* The chart loop is through: main returns.
Finish ==
    /\ pc = "loop"
    /\ i > Len(high_yield_stocks)
    /\ pc' = "done"
    /\ UNCHANGED <<webhook, status, quote, future, results, high_yield_stocks, msg, i, buffers, log>>

Next ==
    \/ \E t \in Tickers : Fetch(t)
    \/ \E t \in Tickers : Collect(t)
    \/ Screen
    \/ SendSummary
    \/ GenerateChart
    \/ SendChart
    \/ CloseChart
    \/ Finish

Spec == Init /\ [][Next]_vars

(***************************************************************************)
(* Vocabulary of the properties                                            *)
(***************************************************************************)

Range(s) == {s[n] : n \in 1..Len(s)}

\* The events of one kind, in the order they happened.
Events(ev) == SelectSeq(log, LAMBDA e : e.ev = ev)

\* The events of one kind about one ticker.
EventsOf(ev, code) == SelectSeq(log, LAMBDA e : e.ev = ev /\ e.code = code)

\* The collected row of a ticker.
RowOf(code) == CHOOSE r \in Range(results) : r.Code = code

Codes(rows) == [n \in 1..Len(rows) |-> rows[n].Code]

\* The tickers of the events of one kind, in order.
Tickers_of(ev) == [n \in 1..Len(Events(ev)) |-> Events(ev)[n].code]

NonIncreasing(rows) == \A n \in 1..(Len(rows) - 1) : rows[n].Yield >= rows[n + 1].Yield

Failed(out) == out \in {"400", "exception"}

\* The position of a ticker in sg_tickers_raw.
Index(t) == CHOOSE n \in 1..NumSymbols : sg_tickers_raw[n] = t

\* The tickers whose price or yield retrieval raised.
Failing == {t \in Tickers : quote[t].price = Raise \/ quote[t].div = Raise}

(***************************************************************************)
(* C1: for every present, non-zero raw yield, the row's Yield is the raw   *)
(* figure unchanged when raw > 0.3 and raw * 100 otherwise.                *)
(* The code multiplies by 100 in both cases.                               *)
(***************************************************************************)
C1_ScaleDisambiguation ==
    \A t \in Tickers :
        (IsRow(future[t]) /\ Truthy(quote[t].div)) =>
            future[t].Yield \in
                (IF quote[t].div.v > 3000
                 THEN RoundTwo(quote[t].div.v)
                 ELSE RoundTwo(quote[t].div.v * 100))

(***************************************************************************)
(* C2: no row of the summary table and no chart message shows a Yield      *)
(* above 100.  The code has no clamp.                                      *)
(***************************************************************************)
C2_SanityClamp ==
    /\ \A n \in 1..Len(msg) : msg[n].Yield <= 10000
    /\ \A n \in 1..Len(log) : log[n].ev = "send" => RowOf(log[n].code).Yield <= 10000

(***************************************************************************)
(* C3: a run that collected no row sends exactly one alert text to the     *)
(* webhook and does nothing else.  The code returns without sending.       *)
(***************************************************************************)
C3_AlertOnEmpty ==
    (pc = "done" /\ results = <<>> /\ webhook) =>
        /\ Len(log) = 1
        /\ log[1].ev = "text"
        /\ log[1].out # "skipped"

\* The collected rows in the order of the configured list.
ConfiguredOrder ==
    SelectSeq([n \in 1..NumSymbols |-> future[sg_tickers_raw[n]]], IsRow)

\* The ranking that breaks ties by the order of the configured list.
StableRanking ==
    CHOOSE s \in sort_values(FilterRows(ConfiguredOrder, YIELD_THRESHOLD)) :
        \A a, b \in 1..Len(s) :
            (a < b /\ s[a].Yield = s[b].Yield) => Index(s[a].Code) < Index(s[b].Code)

(***************************************************************************)
(* C4: whatever the order in which the futures complete, the finished run  *)
(* ranked the rows in the one order fixed by their data: by Yield, ties in *)
(* the order of the configured list.                                       *)
(***************************************************************************)
C4_OrderIndependent ==
    (pc = "done" /\ results # <<>>) => high_yield_stocks = StableRanking

\* Thresholds the filter is tried with.
Thresholds == {483, 600, 700}

(***************************************************************************)
(* C5: every row of the summary table and every row a chart is rendered or *)
(* sent for has Yield >= the threshold; the filter keeps no row below T,   *)
(* for every T.                                                            *)
(***************************************************************************)
C5_AboveThreshold ==
    /\ \A n \in 1..Len(msg) : msg[n].Yield >= YIELD_THRESHOLD
    /\ LET below == {r.Code : r \in {q \in Range(results) : q.Yield < YIELD_THRESHOLD}}
       IN  \A n \in 1..Len(log) :
               log[n].ev \in {"render", "send"} => log[n].code \notin below
    /\ \A T \in Thresholds :
          \A r \in Range(FilterRows(results, T)) : r.Yield >= T

\* A finished run that reported a row and left another out.
C5_Witness ==
    /\ pc = "done"
    /\ Len(msg) >= 1
    /\ \E r \in Range(results) : r.Yield < YIELD_THRESHOLD
    /\ \E n \in 1..Len(log) : log[n].ev = "send" /\ log[n].out = "204"

(***************************************************************************)
(* C6: the ranked rows are in non-increasing order of Yield, and the lines *)
(* of the summary table and the chart messages follow that order.          *)
(***************************************************************************)
C6_SortedDescending ==
    /\ NonIncreasing(high_yield_stocks)
    /\ NonIncreasing(msg)
    /\ Codes(msg) \in {<<>>, Codes(high_yield_stocks)}
    /\ LET sends == Events("send")
           sent == [n \in 1..Len(sends) |-> RowOf(sends[n].code).Yield]
       IN  \A n \in 1..(Len(sends) - 1) : sent[n] >= sent[n + 1]
    /\ pc = "done" => Tickers_of("render") = Codes(high_yield_stocks)

\* A finished run whose rows were collected in rising order of Yield and
\* were reported in falling order.
C6_Witness ==
    /\ pc = "done"
    /\ Len(results) >= 2
    /\ results[1].Yield < results[2].Yield
    /\ results[1].Yield >= YIELD_THRESHOLD
    /\ Len(Events("send")) >= 2
    /\ RowOf(Events("send")[1].code).Yield > RowOf(Events("send")[2].code).Yield

(***************************************************************************)
(* C7: a ticker whose last price is absent, not-a-number, or whose price   *)
(* retrieval failed never appears among the collected rows.                *)
(* The code lets a NaN price through.                                      *)
(***************************************************************************)
C7_NoPriceNoRow ==
    \A t \in Tickers :
        quote[t].price \in {Raise, Absent, NaN} =>
            \A r \in Range(results) : r.Code # t

(***************************************************************************)
(* C8: an exception in one ticker's price or yield retrieval never aborts  *)
(* the run: every ticker is still collected, the failing tickers alone are *)
(* missing, and the ranked rows are the rows at or above the threshold of  *)
(* the tickers that did not fail, each once.                               *)
(***************************************************************************)
C8_FailureIsolated ==
    /\ pc # "aborted"
    /\ \A t \in Failing : \A r \in Range(results) : r.Code # t
    /\ pc # "fetch" =>
          /\ \A t \in Tickers : status[t] = "collected"
          /\ Range(results) = {future[t] : t \in {u \in Tickers \ Failing : IsRow(future[u])}}
          /\ Len(results) = Cardinality(Range(results))
          /\ results # <<>> =>
                /\ Range(high_yield_stocks) =
                      {r \in Range(results) : r.Yield >= YIELD_THRESHOLD}
                /\ Len(high_yield_stocks) = Cardinality(Range(high_yield_stocks))

\* A finished run in which one ticker's retrieval raised and another ticker
\* was reported.
C8_Witness ==
    /\ pc = "done"
    /\ Failing # {}
    /\ \E n \in 1..Len(log) : log[n].ev = "send" /\ log[n].code \notin Failing

(***************************************************************************)
(* C9: no buffer returned to main is open when the run ends, and a buffer  *)
(* is closed only after send_discord_with_chart has returned for it,       *)
(* whatever that call did.                                                 *)
(***************************************************************************)
C9_BuffersClosed ==
    /\ pc = "done" => \A t \in Tickers : buffers[t] # "open"
    /\ pc = "done" =>
          \A n \in 1..Len(log) :
              (log[n].ev = "render" /\ log[n].out = "buffer") =>
                  buffers[log[n].code] = "closed"
    /\ \A t \in Tickers :
          buffers[t] = "closed" => EventsOf("close", t) # <<>>
    /\ \A n \in 1..Len(log) :
          log[n].ev = "close" =>
              /\ n > 1
              /\ log[n - 1].ev = "send"
              /\ log[n - 1].code = log[n].code

\* A finished run in which a post raised and its buffer was closed.
C9_Witness ==
    /\ pc = "done"
    /\ \E n \in 1..Len(log) :
          /\ log[n].ev = "send"
          /\ log[n].out = "exception"
          /\ buffers[log[n].code] = "closed"

\* Each message is posted at most once.
AtMostOnce ==
    /\ Len(Events("text")) <= 1
    /\ \A t \in Tickers : Len(EventsOf("send", t)) <= 1 /\ Len(EventsOf("render", t)) <= 1

(***************************************************************************)
(* C10 as stated: no message is attempted twice, and in a finished run     *)
(* every row ranked after a row whose send failed has its chart rendered   *)
(* and its send attempted.                                                 *)
(***************************************************************************)
C10_LaterRowsSent ==
    /\ AtMostOnce
    /\ pc = "done" =>
          \A m, n \in 1..Len(high_yield_stocks) :
              (/\ m < n
               /\ \E e \in Range(EventsOf("send", high_yield_stocks[m].Code)) : Failed(e.out))
              => /\ Len(EventsOf("render", high_yield_stocks[n].Code)) = 1
                 /\ Len(EventsOf("send", high_yield_stocks[n].Code)) = 1

(***************************************************************************)
(* C10 amended: no message is attempted twice, and in a finished run every *)
(* ranked row has its chart rendered, in rank order, whatever the earlier  *)
(* sends did, and its send attempted right after when a chart buffer was   *)
(* produced for it (a row whose chart came out as None gets no send).      *)
(***************************************************************************)
C10_NoRetryNoSkip ==
    /\ AtMostOnce
    /\ pc = "done" =>
          /\ Tickers_of("render") = Codes(high_yield_stocks)
          /\ \A n \in 1..Len(log) :
                (log[n].ev = "render" /\ log[n].out = "buffer") =>
                    /\ n < Len(log)
                    /\ log[n + 1].ev = "send"
                    /\ log[n + 1].code = log[n].code
          /\ \A n \in 1..Len(log) :
                log[n].ev = "send" =>
                    /\ n > 1
                    /\ log[n - 1] = Event("render", log[n].code, "buffer")

\* A finished run in which a send failed and the next row's send was attempted.
C10_Witness ==
    /\ pc = "done"
    /\ \E a, b \in 1..Len(log) :
          /\ a < b
          /\ log[a].ev \in {"text", "send"} /\ Failed(log[a].out)
          /\ log[b].ev = "send" /\ log[b].code # log[a].code

====
